---- MODULE Spec2Model ----
(***************************************************************************)
(* A model of main.py (GitLinesCounter): the per-commit parser             *)
(* get_commit_stats, the aggregation loop count_lines_in_repo and the      *)
(* driver main.  External git output is modelled as sequences of tokens;   *)
(* the listing output as a sequence of commit ids.                         *)
(***************************************************************************)
EXTENDS Integers, Sequences, FiniteSets, TLC

VARIABLES
    pc,               \* position of the run inside main / count_lines_in_repo
    args,             \* argparse namespace: start_date, end_date (strings or None)
    repoOk,           \* FALSE: every git command exits non-zero with empty stdout
    store,            \* the history snapshot: commit id -> stdout of `git show`
    start_date,       \* main's start_date
    end_date,         \* main's end_date
    queries,          \* external processes spawned so far, in order
    listing,          \* result.stdout.splitlines() of the listing query
    idx,              \* enumerate index of the commit being processed
    stats_by_author,  \* the defaultdict, as a sequence of entries in key order
    commit_details,   \* dict: listed id -> CommitStats
    progress,         \* progress events written to stdout: <<idx, total>>
    result,           \* what count_lines_in_repo handed back to main
    report,           \* authors whose report section has been printed
    err,              \* the exception that ended the run, or "none"
    rawText,          \* the text given to the parser (parser-only runs)
    parsed            \* the parser's outcome on rawText (parser-only runs)

vars == <<pc, args, repoOk, store, start_date, end_date, queries, listing, idx,
          stats_by_author, commit_details, progress, result, report, err,
          rawText, parsed>>

(***************************************************************************)
(* Bounds                                                                  *)
(***************************************************************************)
MaxCommits == 3   \* longest listing
MaxDate == 3      \* calendar days 1..MaxDate
MaxLen == 6       \* longest token sequence given to the parser alone

None == "None"
NL == "NL"
SP == " "
PIPE == "|"
Digits == {"0", "1", "2"}
Whitespace == {SP, NL}

(***************************************************************************)
(* The regular expressions and string operations of get_commit_stats       *)
(***************************************************************************)
insertion_pattern == "insertion"
deletion_pattern == "deletion"

RECURSIVE IndexOf(_, _, _)
\* first position >= i of text holding c; Len(text) + 1 when there is none
IndexOf(text, c, i) ==
    IF i > Len(text) THEN Len(text) + 1
    ELSE IF text[i] = c THEN i
    ELSE IndexOf(text, c, i + 1)

\* result.stdout.split('\n')[0]
FirstLine(text) == SubSeq(text, 1, IndexOf(text, NL, 1) - 1)

RECURSIVE Split(_)
\* first_line.split('|')
Split(line) ==
    LET i == IndexOf(line, PIPE, 1)
    IN  IF i > Len(line) THEN <<line>>
        ELSE <<SubSeq(line, 1, i - 1)>> \o Split(SubSeq(line, i + 1, Len(line)))

RECURSIVE RunEnd(_, _, _)
\* greedy run of characters of S starting at i: the first position after it
RunEnd(text, i, S) ==
    IF i <= Len(text) /\ text[i] \in S THEN RunEnd(text, i + 1, S) ELSE i

\* one attempt of (\d+)\s+<word> at position i
MatchAt(text, i, word) ==
    LET j == RunEnd(text, i, Digits)
        k == RunEnd(text, j, Whitespace)
    IN  IF j > i /\ k > j /\ k <= Len(text) /\ text[k] = word
        THEN [matched |-> TRUE, group |-> SubSeq(text, i, j - 1), end |-> k]
        ELSE [matched |-> FALSE, group |-> <<>>, end |-> i]

RECURSIVE FindAll(_, _, _)
\* re.findall(pattern, text): the groups of the non-overlapping matches,
\* scanning left to right from position i
FindAll(text, i, word) ==
    IF i > Len(text) THEN <<>>
    ELSE LET m == MatchAt(text, i, word)
         IN  IF m.matched THEN <<m.group>> \o FindAll(text, m.end + 1, word)
             ELSE FindAll(text, i + 1, word)

DigitVal(c) == CASE c = "0" -> 0 [] c = "1" -> 1 [] c = "2" -> 2

RECURSIVE ParseInt(_)
\* int(match) of a run of decimal digits
ParseInt(ds) ==
    IF ds = <<>> THEN 0
    ELSE 10 * ParseInt(SubSeq(ds, 1, Len(ds) - 1)) + DigitVal(ds[Len(ds)])

RECURSIVE SumInts(_)
\* sum(int(match) for match in matches)
SumInts(ms) == IF ms = <<>> THEN 0 ELSE ParseInt(Head(ms)) + SumInts(Tail(ms))

UnpackOkLenient(fields) == Len(fields) >= 4
\* hash, author, date, message = fields : exactly four values or ValueError
UnpackOk(fields) == Len(fields) = 4

ParseError == [ok |-> FALSE, error |-> "ValueError"]

get_commit_stats_padded(text) ==
    LET fields == Split(FirstLine(text))
        F(i) == IF i <= Len(fields) THEN fields[i] ELSE <<>>
    IN  [ok |-> TRUE,
         hash |-> F(1), author |-> F(2), date |-> F(3), message |-> F(4),
         insertions |-> SumInts(FindAll(text, 1, insertion_pattern)),
         deletions |-> SumInts(FindAll(text, 1, deletion_pattern))]

\* lines 18-38: ParseError stands for the ValueError of the unpacking
get_commit_stats(text) ==
    LET fields == Split(FirstLine(text))
    IN  IF ~UnpackOk(fields) THEN ParseError
        ELSE [ok |-> TRUE,
              hash |-> fields[1], author |-> fields[2],
              date |-> fields[3], message |-> fields[4],
              insertions |-> SumInts(FindAll(text, 1, insertion_pattern)),
              deletions |-> SumInts(FindAll(text, 1, deletion_pattern))]

(***************************************************************************)
(* Dates: a date string is its format and the day it denotes               *)
(***************************************************************************)
Days == 1..MaxDate
IsoDate(d) == [fmt |-> "%Y-%m-%d", day |-> d]
\* an option that was not given on the command line
NoArg == [fmt |-> None, day |-> 0]
DateArgs == {NoArg} \cup {IsoDate(d) : d \in Days} \cup {[fmt |-> "other", day |-> 1]}

\* datetime.strptime(s, "%Y-%m-%d"): the day, or ValueError
strptime(s) ==
    IF s.fmt = "%Y-%m-%d" THEN [ok |-> TRUE, value |-> s.day] ELSE [ok |-> FALSE, value |-> 0]
\* d.strftime("%Y-%m-%d")
strftime(d) == IsoDate(d)
\* datetime.today()
Today == MaxDate

(***************************************************************************)
(* The history store behind the git commands                               *)
(***************************************************************************)
Ids == {"c1", "c2"}
CommitDate(h) == IF h = "c1" THEN 1 ELSE 2

Header(author, message) == <<"h", PIPE>> \o author \o <<PIPE, "d", PIPE>> \o message

\* stdout of `git show --stat --format=%H|%an|%ad|%s --date=short <id>`
Texts ==
    { <<>>,
      Header(<<"a">>, <<"m">>) \o <<NL, SP, "1", SP, "insertion", SP, "2", SP, "deletion">>,
      Header(<<"b">>, <<"m">>) \o <<NL, "2", SP, "insertion", NL, "1", SP, "insertion">>,
      Header(<<"a">>, <<>>),
      <<"h", PIPE, "a", PIPE, "d">> \o <<NL, "1", SP, "insertion">>,
      Header(<<"a">>, <<"m", PIPE, "m">>) \o <<NL, "1", SP, "insertion">>,
      Header(<<"b">>, <<"2", SP, "insertion">>) \o <<NL, "1", SP, "deletion">> }

BoundedSeq(S, n) == UNION {[1..k -> S] : k \in 0..n}

\* stdout of `git show ...`: empty when the command fails
GitShow(h) == IF repoOk THEN store[h] ELSE <<>>

InWindowSinceOnly(h, since, until) == CommitDate(h) >= since.day
\* git log --since <since> --until <until>
InWindow(h, since, until) == CommitDate(h) >= since.day /\ CommitDate(h) <= until.day

\* the possible outputs (split in lines) of the listing command of
\* count_lines_in_repo: nothing when git fails, else ids of the window
ListCommitIds(since, until) ==
    IF ~repoOk THEN {<<>>}
    ELSE BoundedSeq({h \in Ids : InWindow(h, since, until)}, MaxCommits)

\* stdout lines of `git log --reverse --pretty=format:%ad --date=short`
FirstCommitDates == IF repoOk THEN <<IsoDate(1), IsoDate(2)>> ELSE <<>>

(***************************************************************************)
(* The two dictionaries of count_lines_in_repo                             *)
(***************************************************************************)
EmptyDict == [x \in {} |-> None]
DictSet(d, k, v) == [x \in DOMAIN d \cup {k} |-> IF x = k THEN v ELSE d[x]]

HasKey(d, a) == \E i \in 1..Len(d) : d[i].author = a
KeyIndex(d, a) == CHOOSE i \in 1..Len(d) : d[i].author = a
Keys(d) == [i \in 1..Len(d) |-> d[i].author]

NewEntry(a) == [author |-> a, insertions |-> 0, deletions |-> 0, commits |-> 0]

InsertKeyFront(d, a) == <<NewEntry(a)>> \o d
\* defaultdict.__missing__: a new key goes after all existing keys
InsertKey(d, a) == Append(d, NewEntry(a))

GetOrCreate(d, a) == IF HasKey(d, a) THEN d ELSE InsertKey(d, a)

AddStatsNoCommit(d, stats) ==
    LET d1 == GetOrCreate(d, stats.author)
        i == KeyIndex(d1, stats.author)
    IN  [d1 EXCEPT ![i].insertions = @ + stats.insertions,
                   ![i].deletions = @ + stats.deletions,
                   ![i].commits = IF @ = 0 THEN 1 ELSE @]
\* the three += of the loop body
AddStats(d, stats) ==
    LET d1 == GetOrCreate(d, stats.author)
        i == KeyIndex(d1, stats.author)
    IN  [d1 EXCEPT ![i].insertions = @ + stats.insertions,
                   ![i].deletions = @ + stats.deletions,
                   ![i].commits = @ + 1]

total_commits == Len(listing)

ProgressEventZeroBased(i, n) == <<i - 1, n>>
\* f'\rAnalyzing commits... {idx}/{total_commits}'
ProgressEvent(i, n) == <<i, n>>

NoResult == [returned |-> FALSE]
\* start_date / end_date before main assigns them
Unset == 0
Unparsed == [ok |-> FALSE, error |-> "unparsed"]

(***************************************************************************)
(* The run of main                                                         *)
(***************************************************************************)
Init ==
    /\ pc = "start"
    /\ args \in [start_date : DateArgs, end_date : DateArgs]
    /\ repoOk \in BOOLEAN
    /\ store \in [Ids -> Texts]
    /\ start_date = Unset
    /\ end_date = Unset
    /\ queries = <<>>
    /\ listing = <<>>
    /\ idx = 0
    /\ stats_by_author = <<>>
    /\ commit_details = EmptyDict
    /\ progress = <<>>
    /\ result = NoResult
    /\ report = <<>>
    /\ err = "none"
    /\ rawText = <<>>
    /\ parsed = Unparsed

Raise(e) == pc' = "error" /\ err' = e

ParseStartDate ==
    /\ pc = "start"
    /\ args.start_date # NoArg
    /\ IF ~strptime(args.start_date).ok
       THEN Raise("ValueError: date") /\ UNCHANGED start_date
       ELSE pc' = "end" /\ start_date' = strptime(args.start_date).value /\ UNCHANGED err
    /\ UNCHANGED <<args, repoOk, store, end_date, queries, listing, idx, stats_by_author,
                   commit_details, progress, result, report, rawText, parsed>>

DefaultStartDate ==
    /\ pc = "start"
    /\ args.start_date = NoArg
    /\ queries' = Append(queries, "git log --reverse")
    /\ IF FirstCommitDates = <<>>
       THEN Raise("IndexError") /\ UNCHANGED start_date
       ELSE pc' = "end" /\ start_date' = strptime(FirstCommitDates[1]).value /\ UNCHANGED err
    /\ UNCHANGED <<args, repoOk, store, end_date, listing, idx, stats_by_author,
                   commit_details, progress, result, report, rawText, parsed>>

ParseEndDate ==
    /\ pc = "end"
    /\ args.end_date # NoArg
    /\ IF ~strptime(args.end_date).ok
       THEN Raise("ValueError: date") /\ UNCHANGED end_date
       ELSE pc' = "banner" /\ end_date' = strptime(args.end_date).value /\ UNCHANGED err
    /\ UNCHANGED <<args, repoOk, store, start_date, queries, listing, idx, stats_by_author,
                   commit_details, progress, result, report, rawText, parsed>>

DefaultEndDate ==
    /\ pc = "end"
    /\ args.end_date = NoArg
    /\ pc' = "banner"
    /\ end_date' = Today
    /\ UNCHANGED <<args, repoOk, store, start_date, queries, listing, idx, stats_by_author,
                   commit_details, progress, result, report, err, rawText, parsed>>

PrintBanner ==
    /\ pc = "banner"
    /\ pc' = "count"
    /\ UNCHANGED <<args, repoOk, store, start_date, end_date, queries, listing, idx,
                   stats_by_author, commit_details, progress, result, report, err,
                   rawText, parsed>>

ListCommits ==
    /\ pc = "count"
    /\ queries' = Append(queries, "git log")
    /\ \E out \in ListCommitIds(strftime(start_date), strftime(end_date)) : listing' = out
    /\ stats_by_author' = <<>>
    /\ commit_details' = EmptyDict
    /\ idx' = 0
    /\ pc' = "loop"
    /\ UNCHANGED <<args, repoOk, store, start_date, end_date, progress, result, report,
                   err, rawText, parsed>>

ShowProgress ==
    /\ pc = "loop"
    /\ idx < Len(listing)
    /\ idx' = idx + 1
    /\ progress' = Append(progress, ProgressEvent(idx + 1, total_commits))
    /\ pc' = "fetch"
    /\ UNCHANGED <<args, repoOk, store, start_date, end_date, queries, listing,
                   stats_by_author, commit_details, result, report, err, rawText, parsed>>

GetCommitStatsFails ==
    /\ pc = "fetch"
    /\ queries' = Append(queries, "git show")
    /\ ~get_commit_stats(GitShow(listing[idx])).ok
    /\ Raise("ValueError: unpack")
    /\ UNCHANGED <<args, repoOk, store, start_date, end_date, listing, idx,
                   stats_by_author, commit_details, progress, result, report,
                   rawText, parsed>>

FoldCommit ==
    /\ pc = "fetch"
    /\ queries' = Append(queries, "git show")
    /\ LET commit_hash == listing[idx]
           stats == get_commit_stats(GitShow(commit_hash))
       IN  /\ stats.ok
           /\ commit_details' = DictSet(commit_details, commit_hash, stats)
           /\ stats_by_author' = AddStats(stats_by_author, stats)
    /\ pc' = "loop"
    /\ UNCHANGED <<args, repoOk, store, start_date, end_date, listing, idx, progress,
                   result, report, err, rawText, parsed>>

ReturnResult ==
    /\ pc = "loop"
    /\ idx = Len(listing)
    /\ result' = [returned |-> TRUE, by_author |-> stats_by_author, by_id |-> commit_details]
    /\ pc' = "report"
    /\ UNCHANGED <<args, repoOk, store, start_date, end_date, queries, listing, idx,
                   stats_by_author, commit_details, progress, report, err, rawText, parsed>>

PrintAuthor ==
    /\ pc = "report"
    /\ Len(report) < Len(result.by_author)
    /\ report' = Append(report, result.by_author[Len(report) + 1].author)
    /\ UNCHANGED <<pc, args, repoOk, store, start_date, end_date, queries, listing, idx,
                   stats_by_author, commit_details, progress, result, err, rawText, parsed>>

PrintTotals ==
    /\ pc = "report"
    /\ Len(report) = Len(result.by_author)
    /\ pc' = "done"
    /\ UNCHANGED <<args, repoOk, store, start_date, end_date, queries, listing, idx,
                   stats_by_author, commit_details, progress, result, report, err,
                   rawText, parsed>>

Next ==
    \/ ParseStartDate
    \/ DefaultStartDate
    \/ ParseEndDate
    \/ DefaultEndDate
    \/ PrintBanner
    \/ ListCommits
    \/ ShowProgress
    \/ GetCommitStatsFails
    \/ FoldCommit
    \/ ReturnResult
    \/ PrintAuthor
    \/ PrintTotals

Spec == Init /\ [][Next]_vars

(***************************************************************************)
(* The parser alone, on every token sequence up to MaxLen                  *)
(***************************************************************************)
Tokens == {PIPE, NL, SP, "1", "2", insertion_pattern, deletion_pattern, "a"}

ParseInit ==
    /\ pc = "parse"
    /\ rawText \in BoundedSeq(Tokens, MaxLen)
    /\ parsed = Unparsed
    /\ args = [start_date |-> NoArg, end_date |-> NoArg]
    /\ repoOk = TRUE
    /\ store = [h \in Ids |-> <<>>]
    /\ start_date = Unset
    /\ end_date = Unset
    /\ queries = <<>>
    /\ listing = <<>>
    /\ idx = 0
    /\ stats_by_author = <<>>
    /\ commit_details = EmptyDict
    /\ progress = <<>>
    /\ result = NoResult
    /\ report = <<>>
    /\ err = "none"

ParseText ==
    /\ pc = "parse"
    /\ parsed' = get_commit_stats(rawText)
    /\ pc' = "parsed"
    /\ UNCHANGED <<args, repoOk, store, start_date, end_date, queries, listing, idx,
                   stats_by_author, commit_details, progress, result, report, err, rawText>>

ParseNext == ParseText

ParseSpec == ParseInit /\ [][ParseNext]_vars

(***************************************************************************)
(* Definitions used to state the properties                                *)
(***************************************************************************)
Range(s) == {s[i] : i \in DOMAIN s}
NoDup(s) == \A i, j \in DOMAIN s : s[i] = s[j] => i = j

\* number of commit fetches issued so far
Attempted == Cardinality({i \in DOMAIN queries : queries[i] = "git show"})
Listed == "git log" \in Range(queries)

RECURSIVE SumCommits(_)
SumCommits(d) == IF d = <<>> THEN 0 ELSE Head(d).commits + SumCommits(Tail(d))
\* number of commits folded into the per-author totals so far
Folded == SumCommits(stats_by_author)

\* the record the k-th listed commit parses to
Processed(k) == get_commit_stats(GitShow(listing[k]))

\* pipe-delimited fields of the first line, counted without splitting
HeaderFieldCount(text) ==
    1 + Cardinality({i \in 1..Len(text) : text[i] = PIPE /\ i < IndexOf(text, NL, 1)})

\* the text after the header line
Body(text) == SubSeq(text, IndexOf(text, NL, 1) + 1, Len(text))

RECURSIVE SumField(_, _, _)
\* sum of field f ("insertions" or "deletions") of the records of d with key in S
SumField(d, S, f) ==
    IF S = {} THEN 0
    ELSE LET h == CHOOSE x \in S : TRUE
         IN  (IF f = "insertions" THEN d[h].insertions ELSE d[h].deletions)
             + SumField(d, S \ {h}, f)

AuthorRecords(by_id, a) == {h \in DOMAIN by_id : by_id[h].author = a}

SumConsistent(r) ==
    \A i \in 1..Len(r.by_author) :
        LET e == r.by_author[i]
            S == AuthorRecords(r.by_id, e.author)
        IN  /\ e.commits = Cardinality(S)
            /\ e.insertions = SumField(r.by_id, S, "insertions")
            /\ e.deletions = SumField(r.by_id, S, "deletions")

RECURSIVE FirstSeen(_)
\* the distinct elements of s in order of first appearance
FirstSeen(s) ==
    IF s = <<>> THEN <<>>
    ELSE LET f == FirstSeen(SubSeq(s, 1, Len(s) - 1))
             x == s[Len(s)]
         IN  IF x \in Range(f) THEN f ELSE Append(f, x)

RECURSIVE SumProcessed(_, _, _)
\* sum of field f over the records of the sequence recs whose author is a
SumProcessed(recs, a, f) ==
    IF recs = <<>> THEN 0
    ELSE (IF Head(recs).author # a THEN 0
          ELSE IF f = "insertions" THEN Head(recs).insertions
          ELSE IF f = "deletions" THEN Head(recs).deletions
          ELSE 1)
         + SumProcessed(Tail(recs), a, f)

FetchFailed == pc = "error" /\ err = "ValueError: unpack"
\* commits of the listing whose loop iteration has completed
Completed == IF pc = "fetch" \/ FetchFailed THEN idx - 1 ELSE idx

(***************************************************************************)
(* C1. Sum consistency at completion, for any listed id sequence           *)
(* (repeated ids included): every by_author entry's commits, insertions    *)
(* and deletions equal the count and sums over the by_id records of that   *)
(* author.  Fails when an id is listed twice.                              *)
(***************************************************************************)
C1_SumConsistencyAnyListing == result.returned => SumConsistent(result)

\* C1 (amended): the same, for listings in which no id is repeated.
C1_SumConsistencyDistinctIds ==
    (result.returned /\ NoDup(listing)) => SumConsistent(result)

C1_Witness ==
    /\ result.returned
    /\ NoDup(listing)
    /\ Len(listing) = 2
    /\ Len(result.by_author) = 1
    /\ result.by_author[1].commits = 2
    /\ result.by_author[1].insertions > 0

(***************************************************************************)
(* C2. Fail-loud: once a fetched commit has no usable text or a header     *)
(* that is not four fields, the run is in the error state, no result has   *)
(* been returned and no per-author report section has been printed.        *)
(***************************************************************************)
C2_FailLoud ==
    \A k \in 1..Attempted :
        (GitShow(listing[k]) = <<>> \/ HeaderFieldCount(GitShow(listing[k])) # 4)
            => (pc = "error" /\ ~result.returned /\ report = <<>>)

C2_Witness ==
    /\ FetchFailed
    /\ GitShow(listing[idx]) = <<>>
    /\ idx >= 2
    /\ Folded = idx - 1
    /\ ~result.returned

(***************************************************************************)
(* C3. A listing query that exits non-zero ends the run in an error state; *)
(* the run never goes on as if the window held no commits.                 *)
(***************************************************************************)
C3_ListingFailureIsError == (Listed /\ ~repoOk) => pc = "error"

(***************************************************************************)
(* C4. An invalid --start-date or --end-date is reported before any        *)
(* external query has been issued.                                         *)
(***************************************************************************)
C4_InvalidDateBeforeAnyQuery == err = "ValueError: date" => queries = <<>>

(***************************************************************************)
(* C5. Progress events are (k, n) for k = 1, 2, ... in order, and event k  *)
(* is emitted only after commit k has been folded into the totals.         *)
(***************************************************************************)
C5_ProgressAfterFold ==
    \A k \in 1..Len(progress) : progress[k] = <<k, Len(listing)>> /\ k <= Folded

\* C5 (amended): events are (k, n) for k = 1, 2, ... in order, one per
\* started commit; event k is emitted after commits 1..k-1 were folded and
\* before commit k is fetched; a completed run has emitted exactly n events;
\* a commit whose processing fails has had its event emitted.
C5_ProgressBeforeFetch ==
    /\ progress = [k \in 1..Len(progress) |-> <<k, Len(listing)>>]
    /\ Len(progress) = idx
    /\ pc = "fetch" => (Attempted = idx - 1 /\ Folded = idx - 1)
    /\ pc = "loop" => (Attempted = idx /\ Folded = idx)
    /\ FetchFailed => (Attempted = idx /\ Folded = idx - 1)
    /\ result.returned => Len(progress) = Len(listing)

C5_Witness ==
    /\ pc = "fetch"
    /\ idx = 2
    /\ progress = <<<<1, Len(listing)>>, <<2, Len(listing)>>>>
    /\ Attempted = 1

(***************************************************************************)
(* C6. The keys of by_author are in order of first appearance of each      *)
(* author in the processed commits, the totals are those of the processed  *)
(* commits (so the result is a function of the listing and the fetched     *)
(* texts), and the report sections follow the key order.                   *)
(***************************************************************************)
C6_AuthorOrderFirstSeen ==
    LET recs == SubSeq([k \in 1..Len(listing) |-> Processed(k)], 1, Completed)
    IN  /\ Keys(stats_by_author) = FirstSeen([k \in 1..Completed |-> recs[k].author])
        /\ \A i \in 1..Len(stats_by_author) :
               LET e == stats_by_author[i]
               IN  /\ e.commits = SumProcessed(recs, e.author, "commits")
                   /\ e.insertions = SumProcessed(recs, e.author, "insertions")
                   /\ e.deletions = SumProcessed(recs, e.author, "deletions")
        /\ result.returned =>
               /\ result.by_author = stats_by_author
               /\ report = SubSeq(Keys(result.by_author), 1, Len(report))

C6_Witness ==
    /\ pc = "done"
    /\ Len(listing) = 3
    /\ report = << <<"b">>, <<"a">> >>
    /\ Processed(3).author = <<"b">>

(***************************************************************************)
(* C7. The parsed insertions (deletions) equal the sum of all              *)
(* "<integer> insertion" ("<integer> deletion") occurrences of the change  *)
(* summary, 0 when there is none, and are never negative.                  *)
(***************************************************************************)
C7_SumOfSummaryMatches ==
    (pc = "parsed" /\ parsed.ok) =>
        /\ parsed.insertions = SumInts(FindAll(Body(rawText), 1, insertion_pattern))
        /\ parsed.deletions = SumInts(FindAll(Body(rawText), 1, deletion_pattern))
        /\ parsed.insertions >= 0
        /\ parsed.deletions >= 0

(***************************************************************************)
(* C8. A fetched text whose first line is not exactly four pipe-delimited  *)
(* fields makes the fetch step fail, leaving by_author and by_id as they   *)
(* were and returning nothing.                                             *)
(***************************************************************************)
C8_MalformedHeaderRejected ==
    [][(pc = "fetch" /\ HeaderFieldCount(GitShow(listing[idx])) # 4)
          => /\ pc' = "error"
             /\ stats_by_author' = stats_by_author
             /\ commit_details' = commit_details
             /\ ~result'.returned]_vars

C8_Witness ==
    /\ FetchFailed
    /\ HeaderFieldCount(GitShow(listing[idx])) > 4
    /\ idx >= 2
    /\ Len(stats_by_author) = 1
    /\ DOMAIN commit_details = {listing[1]}

(***************************************************************************)
(* C9. When the window start is later than the window end the listing is   *)
(* empty, no commit is fetched, no error is raised and the returned        *)
(* by_author and by_id are empty.                                          *)
(***************************************************************************)
C9_EmptyWindow ==
    (Listed /\ start_date > end_date) =>
        /\ listing = <<>>
        /\ Attempted = 0
        /\ pc # "error"
        /\ pc # "fetch"
        /\ result.returned => (result.by_author = <<>> /\ result.by_id = EmptyDict)

C9_Witness ==
    /\ pc = "done"
    /\ repoOk
    /\ start_date > end_date
    /\ result.returned
    /\ result.by_author = <<>>
    /\ result.by_id = EmptyDict

(***************************************************************************)
(* C10. The header line never contributes to the counts: replacing the     *)
(* header by an empty four-field header leaves the parsed insertions and   *)
(* deletions unchanged.                                                    *)
(***************************************************************************)
C10_HeaderNeverContributes ==
    (pc = "parsed" /\ parsed.ok) =>
        LET rest == SubSeq(rawText, IndexOf(rawText, NL, 1), Len(rawText))
            ref == get_commit_stats(<<PIPE, PIPE, PIPE>> \o rest)
        IN  /\ parsed.insertions = ref.insertions
            /\ parsed.deletions = ref.deletions

====
